---- MODULE Spec2Model ----
(***************************************************************************)
(* Resilient telemetry uplink of the ground-station sensor client:         *)
(* HTTPUploader (http_uploader.py) driven by SensorSystem.run (main.py).   *)
(* One process, one collection timeline; asynchronous events are the       *)
(* collector's answers, the outcome of file writes, and process            *)
(* termination (signal_handler or a hard kill) followed by a restart.      *)
(***************************************************************************)
EXTENDS Integers, Sequences, FiniteSets, TLC

\* ---------------------------------------------------------------- bounds
MaxTicks == 2
MaxRetryTimes == 4
MaxInitQueue == 2

\* ---------------------------------------------------------- data model
SensorTypes == <<"temperature", "humidity", "pressure", "light">>

SensorNames == {SensorTypes[k] : k \in 1..Len(SensorTypes)}

\* The ReadingSets of the model, as read_all_sensors returns them: one with
\* every sensor read, one with two sensors omitted after a per-sensor
\* failure. Equal timestamp and values make equal entries of the queue.
Readings ==
  {[timestamp |-> 1, sensors |-> SensorNames],
   [timestamp |-> 2, sensors |-> {"temperature", "light"}]}

NoReading == [timestamp |-> 0, sensors |-> {}]

\* ------------------------------------------------- persisted store (JSON)
\* json.dump of one ReadingSet: the timestamp and the sensor objects in the
\* order of the configured sensor list.
EncodeEntry(rs) ==
  <<rs.timestamp, SelectSeq(SensorTypes, LAMBDA s : s \in rs.sensors)>>

DecodeEntry(e) ==
  [timestamp |-> e[1], sensors |-> {e[2][k] : k \in 1..Len(e[2])}]

Encode(q) == [k \in 1..Len(q) |-> EncodeEntry(q[k])]

\* Variant: the array is rebuilt newest first.
DecodeReversed(t) == [k \in 1..Len(t) |-> DecodeEntry(t[Len(t) + 1 - k])]

Decode(t) == [k \in 1..Len(t) |-> DecodeEntry(t[k])]

Absent == [kind |-> "absent", text |-> <<>>]

Partial == [kind |-> "partial", text |-> <<>>]

\* Variant: only the newest entry is written.
JsonFileNewestOnly(q) ==
  [kind |-> "json",
   text |-> Encode(IF q = <<>> THEN q ELSE <<q[Len(q)]>>)]

JsonFile(q) == [kind |-> "json", text |-> Encode(q)]

\* Variant: a text that does not parse leaves a placeholder entry.
LoadCacheCorruptEntry(f) ==
  IF f.kind = "absent" THEN <<>>
  ELSE IF f.kind = "json" THEN Decode(f.text)
  ELSE <<NoReading>>

LoadCache(f) ==
  IF f.kind = "absent" THEN <<>>
  ELSE IF f.kind = "json" THEN Decode(f.text)
  ELSE <<>>

\* ------------------------------------------------------------ responses
Responses ==
  {[kind |-> "timeout", status |-> 0, body |-> "none"],
   [kind |-> "connerr", status |-> 0, body |-> "none"]}
  \cup [kind : {"http"}, status : {200}, body : {"ok_absent", "malformed"}]
  \cup [kind : {"http"}, status : {200, 201, 500},
        body : {"ok_true", "ok_false"}]

\* Variant: every 2xx status is accepted.
AttemptResultAny2xx(resp) ==
  IF resp.kind = "http" /\ resp.status \in 200..299
  THEN IF resp.body = "malformed" THEN "retry"
       ELSE IF resp.body = "ok_true" THEN "success"
       ELSE "terminal"
  ELSE "retry"

\* Variant: the acknowledgement is not recognised and the loop goes on.
AttemptResultOkRetried(resp) ==
  IF resp.kind = "http" /\ resp.status = 200
  THEN IF resp.body \in {"malformed", "ok_true"} THEN "retry" ELSE "terminal"
  ELSE "retry"

\* Variant: "return False" is missing after the server's error is logged.
AttemptResultNoTerminal(resp) ==
  IF resp.kind = "http" /\ resp.status = 200
  THEN IF resp.body = "ok_true" THEN "success" ELSE "retry"
  ELSE "retry"

\* Outcome of one pass through the body of the retry loop (lines 197-236):
\* True returned, False returned, or the loop goes on.
AttemptResult(resp) ==
  IF resp.kind = "http" /\ resp.status = 200
  THEN IF resp.body = "malformed" THEN "retry"
       ELSE IF resp.body = "ok_true" THEN "success"
       ELSE "terminal"
  ELSE "retry"

\* Variant: use_retry is ignored.
MaxAttemptsAlwaysRetry(retry, use_retry) == retry

\* _upload_single: "max_attempts = self.retry_times if use_retry else 1"
\* (line 188).
MaxAttempts(retry, use_retry) == IF use_retry THEN retry ELSE 1

\* Variant: the exponent counts from zero.
WaitTimeFromZero(attempt) == 2 ^ (attempt - 1)

WaitTime(attempt) == 2 ^ attempt

\* Variant: every element equal to x is dropped.
RemoveEqual(q, x) == SelectSeq(q, LAMBDA y : y # x)

\* list.remove(x): drop the first element equal to x.
RECURSIVE RemoveFirst(_, _)
RemoveFirst(q, x) ==
  IF q = <<>> THEN <<>>
  ELSE IF Head(q) = x THEN Tail(q)
  ELSE <<Head(q)>> \o RemoveFirst(Tail(q), x)

\* Variant: remove() takes the last equal element instead of the first.
RECURSIVE RemoveLast(_, _)
RemoveLast(q, x) ==
  IF q = <<>> THEN <<>>
  ELSE IF q[Len(q)] = x THEN SubSeq(q, 1, Len(q) - 1)
  ELSE Append(RemoveLast(SubSeq(q, 1, Len(q) - 1), x), q[Len(q)])

RECURSIVE RemoveAllFromTail(_, _)
RemoveAllFromTail(q, up) ==
  IF up = <<>> THEN q
  ELSE RemoveAllFromTail(RemoveLast(q, Head(up)), Tail(up))

RECURSIVE RemoveAll(_, _)
RemoveAll(q, up) ==
  IF up = <<>> THEN q
  ELSE RemoveAll(RemoveFirst(q, Head(up)), Tail(up))

Count(q, x) == Cardinality({k \in 1..Len(q) : q[k] = x})

RECURSIVE InitQueues(_)
InitQueues(n) ==
  IF n = 0 THEN {<<>>}
  ELSE InitQueues(n - 1)
       \cup {Append(q, r) : q \in {p \in InitQueues(n - 1) : Len(p) = n - 1},
                            r \in Readings}

\* ---------------------------------------------------------------- state
VARIABLES
  retry_times,   \* config.HTTP_RETRY_TIMES
  enable_cache,  \* config.ENABLE_CACHE
  running,       \* SensorSystem.running
  pc,            \* position of the main thread
  cache,         \* HTTPUploader.cache
  file,          \* content of CACHE_FILE
  cur,           \* sensor_data of the tick in progress
  attempt,       \* loop variable of the retry loop
  success,       \* value returned by _upload_single for the fresh reading
  idx,           \* position of the drain loop in self.cache
  uploaded,      \* local list of _upload_cached_data
  stats,         \* SensorSystem.stats
  termKind,      \* how the process ended: "none", "signal", "kill"
  termAt,        \* what the main thread was doing when the process ended
  finalStats,    \* what print_stats reported at the stop, if anything
  lastResp,      \* the answer handled by the latest attempt
  log,           \* attempts and waits of the upload() call in progress
  cache0,        \* the queue when the tick started
  unacked,       \* per content: completed uploads not acknowledged so far
  saved,         \* the queue written by the latest complete write, if any
  stale,         \* a write of the queue failed and none succeeded since
  notes,         \* Dashboard and Logger notifications of the tick, in order
  ticks,         \* ticks started so far, over all processes
  marks,         \* calls of mark_upload_success by the upload() in progress
  payload        \* the "usv" part of the payload of the request in flight

vars == <<retry_times, enable_cache, running, pc, cache, file, cur, attempt,
          success, idx, uploaded, stats, termKind, termAt, finalStats,
          lastResp, log, cache0, unacked, saved, stale, notes, ticks,
          marks, payload>>

config == <<retry_times, enable_cache>>

NoResp == [kind |-> "none", status |-> 0, body |-> "none"]

NoStats == [total_collections |-> 0 - 1, successful_uploads |-> 0 - 1,
            failed_uploads |-> 0 - 1]

ZeroStats == [total_collections |-> 0, successful_uploads |-> 0,
              failed_uploads |-> 0]

NotSaved == <<NoReading>>

Ev(e, rs, res, n) == [ev |-> e, rs |-> rs, res |-> res, n |-> n]

\* time.time() % 1 at the moment the payload is built, in tenths.
Fracs == {0, 9}

UsvFields == {"temp", "humidity", "pressure", "light"}

\* The key of sensor_data['sensors'] a field of "usv" is taken from.
SensorOf(field) == IF field = "temp" THEN "temperature" ELSE field

\* Values of the payload: the value read by a sensor, a generated one (in
\* tenths, light in units), or JSON null.
Own(rs, name) == [src |-> "sensor", of |-> name, v |-> rs.timestamp]

Null(name) == [src |-> "null", of |-> name, v |-> 0]

\* The generated values of lines 153-176.
Substitute(name, f) ==
  [src |-> "generated", of |-> name,
   v |-> IF name = "temperature" THEN 220 + 2 * f
         ELSE IF name = "humidity" THEN 530 + 4 * f
         ELSE IF name = "pressure" THEN 10120 + 2 * f
         ELSE 1150 + 10 * f]

\* sensors.get(name, {}).get('value') (lines 151, 158, 165, 172).
SensorValue(rs, name) ==
  IF name \in rs.sensors THEN Own(rs, name) ELSE Null(name)

\* Variant: a value that is None is sent as it is.
UsvValueNoBackfill(rs, name, f) == SensorValue(rs, name)

\* One field of "usv": "if x_val is None: x_val = ..." (lines 150-176).
UsvValue(rs, name, f) ==
  IF SensorValue(rs, name) = Null(name) THEN Substitute(name, f)
  ELSE SensorValue(rs, name)

\* _upload_single: the "usv" fields of the payload built before the retry
\* loop (lines 128-176).
BuildPayload(rs, f) == [x \in UsvFields |-> UsvValue(rs, SensorOf(x), f)]

NoPayload == [x \in UsvFields |-> Null("none")]

BagOfQueue(q) == [r \in Readings |-> Count(q, r)]

\* HTTPUploader.__init__ followed by SensorSystem.run up to the loop. The
\* cache file is missing or is what an earlier process wrote.
Init ==
  /\ retry_times \in 0..MaxRetryTimes
  /\ enable_cache \in BOOLEAN
  /\ \E q \in InitQueues(MaxInitQueue) :
       \/ file = Absent /\ saved = NotSaved
       \/ file = JsonFile(q) /\ saved = q
  /\ cache = IF enable_cache THEN LoadCache(file) ELSE <<>>
  /\ running = TRUE
  /\ pc = "loop"
  /\ cur = NoReading
  /\ attempt = 0
  /\ success = FALSE
  /\ idx = 0
  /\ uploaded = <<>>
  /\ stats = ZeroStats
  /\ termKind = "none"
  /\ termAt = "none"
  /\ finalStats = NoStats
  /\ lastResp = NoResp
  /\ log = <<>>
  /\ cache0 = <<>>
  /\ unacked = BagOfQueue(cache)
  /\ stale = FALSE
  /\ notes = <<>>
  /\ ticks = 0
  /\ marks = 0
  /\ payload = NoPayload


\* ------------------------------------------------------------- helpers
Logged(e) == log' = Append(log, e)

AckOne(b, r) == [b EXCEPT ![r] = IF @ > 0 THEN @ - 1 ELSE 0]

\* A notification of the tick: who was called, with which ReadingSet and
\* success argument, and how the call ended.
Note(to, rs, arg, out) == [to |-> to, rs |-> rs, arg |-> arg, out |-> out]

\* Variant: the argument is left at the default of the parameter,
\* upload_success=False.
LoggerArgDefault(ok) == "false"

\* collect_and_upload: log_sensor_data(sensor_data, upload_success=success)
\* (line 513).
LoggerArg(ok) == IF ok THEN "true" ELSE "false"

\* Variant: the inner try/except is missing and the error of
\* update_data leaves run().
AfterDashboardUncaught(out) == IF out = "error" THEN "stopped" ELSE "log"

\* collect_and_upload: update_data returned, or raised and the error was
\* caught and logged (lines 504-510); log_sensor_data is called next.
AfterDashboard(out) == "log"

\* Variant: a tick whose log_sensor_data raised is followed by the next
\* tick at once.
AfterLoggerNoSleep(out) == IF out = "raised" THEN "loop" ELSE "sleep"

\* collect_and_upload returns, normally or through its handler (lines
\* 526-534); run() goes on to time.sleep(self.interval) (lines 571-574).
AfterLogger(out) == "sleep"

\* Variant: the call is made before result.get('ok') is tested.
MarkedBeforeOkTest(m, res) == IF res \in {"success", "terminal"} THEN m + 1 ELSE m

\* _upload_single with the data logger attached (main.py 91-92): one call
\* of mark_upload_success, in the branch that returns True (lines 205-212).
Marked(m, res) == IF res = "success" THEN m + 1 ELSE m

\* The log entry of a _save_cache call: how it ended, and whether an
\* earlier write had failed with none succeeding since.
SaveEv(res, pending) == Ev("save", cur, res, IF pending THEN 1 ELSE 0)

\* Variant: the reduced queue is not written after a drain.
SaveAfterDrainNever(up) == FALSE

\* _upload_cached_data: "if uploaded: self._save_cache()" (lines 112-113).
SaveAfterDrain(up) == up # <<>>

\* What the main thread is doing at a position: inside time.sleep
\* (main.py 574, http_uploader.py 242), inside requests.post
\* (http_uploader.py 197), or running code.
Activity(p) ==
  IF p \in {"sleep", "backoff"} THEN "sleeping"
  ELSE IF p \in {"inflight", "drain_inflight"} THEN "request"
  ELSE "code"

\* Variant: sys.exit(0) is missing from the handler; a sleep in progress
\* is resumed.
AfterSignalNoExit(p) == IF Activity(p) = "sleeping" THEN p ELSE "stopped"

\* signal_handler: stop(), then sys.exit(0) ends the main thread where it
\* stands (main.py 603-609).
AfterSignal(p) == "stopped"

\* Variant: the handler of collect_and_upload forgets the tick.
CountFailedNot(st) == st

\* collect_and_upload: self.stats['failed_uploads'] += 1 (lines 524, 533).
CountFailed(st) == [st EXCEPT !.failed_uploads = @ + 1]

\* Variant: the new entry goes to the head of the queue.
AddToCacheAtHead(q, r) == <<r>> \o q

\* _add_to_cache: self.cache.append(sensor_data) (line 88).
AddToCache(q, r) == Append(q, r)

\* Variant: everything is cached, delivered or not.
ShouldCacheAlways(ok, enabled) == enabled

\* Variant: the switch is not consulted.
ShouldCacheUnconditional(ok, enabled) == ~ok

\* Variant: the negation of success is lost.
ShouldCacheOnSuccess(ok, enabled) == ok /\ enabled

\* upload(): "if not success and self.enable_cache" (line 263).
ShouldCache(ok, enabled) == ~ok /\ enabled

\* Variant: the backlog is tried whatever the fresh delivery returned.
ShouldDrainAnyway(ok, q) == q # <<>>

\* upload(): "if success and self.cache" (line 267).
ShouldDrain(ok, q) == ok /\ q # <<>>

\* _upload_single: "if use_retry and attempt < max_attempts" (line 239).
ShouldWait(use_retry, k, max_attempts) == use_retry /\ k < max_attempts

\* ------------------------------------------------------------- actions
\* run(): "while self.running", then collect_and_upload up to the first
\* request of the fresh delivery (main.py 567-501, http_uploader.py 260,
\* 188-197).
CollectFrom(RS) ==
  /\ pc = "loop"
  /\ running
  /\ ticks < MaxTicks
  /\ ticks' = ticks + 1
  /\ \E rs \in RS : cur' = rs
  /\ stats' = [stats EXCEPT !.total_collections = @ + 1]
  /\ log' = <<>>
  /\ cache0' = cache
  /\ lastResp' = NoResp
  /\ uploaded' = <<>>
  /\ idx' = 0
  /\ IF 1 <= MaxAttempts(retry_times, TRUE)
     THEN /\ pc' = "inflight" /\ attempt' = 1 /\ success' = FALSE
          /\ \E f \in Fracs : payload' = BuildPayload(cur', f)
     ELSE /\ pc' = "returned" /\ attempt' = 0 /\ success' = FALSE
          /\ payload' = NoPayload
  /\ UNCHANGED <<config, running, cache, file, termKind, termAt,
                 finalStats, unacked, saved,
                 stale, notes>>
  /\ marks' = 0

\* A tick whose Sampler returns any of the ReadingSets.
Collect == CollectFrom(Readings)

\* The ReadingSet the _upload_single call in progress is for.
Sending == IF pc \in {"drain_inflight", "drain_handle"} THEN cache[idx]
           ELSE cur

\* requests.post returns resp, the collector's answer or a transport
\* error, for the fresh attempt or for the drain attempt in flight
\* (lines 197-202).
ReceiveResp(resp) ==
  /\ pc \in {"inflight", "drain_inflight"}
  /\ lastResp' = resp
  /\ pc' = IF pc = "inflight" THEN "handle" ELSE "drain_handle"
  /\ payload' = NoPayload
  /\ UNCHANGED <<marks, config, running, cache, file, cur, attempt, success, idx,
                 uploaded, stats, termKind, termAt, finalStats, log, cache0,
                 unacked, saved,
                 stale, notes, ticks>>

\* The collector answers anything, or cannot be reached.
Receive == \E resp \in Responses : ReceiveResp(resp)

\* The rest of the body of the retry loop for a fresh attempt
\* (lines 204-247 with use_retry=True).
Handle ==
  /\ pc = "handle"
  /\ LET res == AttemptResult(lastResp) IN
       IF res = "success"
       THEN /\ success' = TRUE
            /\ pc' = "returned"
            /\ Logged(Ev("fresh", cur, res, attempt))
       ELSE IF res = "terminal"
       THEN /\ success' = FALSE
            /\ pc' = "returned"
            /\ Logged(Ev("fresh", cur, res, attempt))
       ELSE IF ShouldWait(TRUE, attempt, MaxAttempts(retry_times, TRUE))
       THEN /\ success' = FALSE
            /\ pc' = "backoff"
            /\ log' = log \o <<Ev("fresh", cur, res, attempt),
                               Ev("sleep", cur, "none", WaitTime(attempt))>>
       ELSE /\ success' = FALSE
            /\ pc' = "returned"
            /\ Logged(Ev("fresh", cur, res, attempt))
  /\ lastResp' = NoResp
  /\ UNCHANGED <<config, running, cache, file, cur, attempt, idx, uploaded,
                 stats, termKind, termAt, finalStats, cache0, unacked,
                 saved,
                 stale, notes, ticks>>
  /\ marks' = Marked(marks, AttemptResult(lastResp))
  /\ UNCHANGED payload

\* time.sleep(wait_time) returns and the loop sends the next request, with
\* the payload the call built (the model keeps the payload of a request in
\* flight only, and not the fraction of the second it was built at).
BackoffDone ==
  /\ pc = "backoff"
  /\ pc' = "inflight"
  /\ attempt' = attempt + 1
  /\ \E f \in Fracs : payload' = BuildPayload(cur, f)
  /\ UNCHANGED <<marks, config, running, cache, file, cur, success, idx, uploaded,
                 stats, termKind, termAt, finalStats, lastResp, log, cache0,
                 unacked, saved,
                 stale, notes, ticks>>

\* What the rest of upload() keeps of the log of _upload_single: the
\* attempt that decided its result.
LastOnly(l) == IF l = <<>> THEN <<>> ELSE <<l[Len(l)]>>

\* upload(), "if success and self.cache: self._upload_cached_data()"
\* (lines 267-270, 94-102): the position after the test, and the start of
\* the drain loop when it is entered.
DrainOrReturn ==
  IF ShouldDrain(success, cache)
  THEN /\ pc' = "drain_inflight" /\ idx' = 1 /\ uploaded' = <<>>
       /\ \E f \in Fracs : payload' = BuildPayload(cache[1], f)
  ELSE /\ pc' = "uploaded" /\ UNCHANGED <<idx, uploaded>>
       /\ payload' = NoPayload

\* upload() after _upload_single returned (lines 263-268): append to the
\* cache and go on to write it, or go on to the test of line 267.
AfterDelivery ==
  /\ pc = "returned"
  /\ unacked' = IF success THEN unacked
                ELSE [unacked EXCEPT ![cur] = @ + 1]
  /\ IF ShouldCache(success, enable_cache)
     THEN /\ cache' = AddToCache(cache, cur)
          /\ pc' = "save_add"
          /\ UNCHANGED <<idx, uploaded, payload>>
     ELSE /\ UNCHANGED cache
          /\ DrainOrReturn
  /\ log' = LastOnly(log)
  /\ UNCHANGED <<marks, config, running, file, cur, attempt, success, stats,
                 termKind, termAt, finalStats, lastResp, cache0, saved,
                 stale, notes, ticks>>

\* The attempts _upload_single has made so far for the entry at position
\* i of the drain in progress.
DrainTries(l, i) ==
  Len(SelectSeq(l, LAMBDA x : x.ev = "drain" /\ x.n = i))

\* _upload_cached_data: the outcome of an attempt made for cache[idx] by
\* _upload_single with use_retry=False (lines 100-106, 188-247): the
\* retry loop of the call has MaxAttempts(retry_times, FALSE) rounds.
DrainHandle ==
  /\ pc = "drain_handle"
  /\ LET res == AttemptResult(lastResp)
         k == DrainTries(log, idx) + 1
         max_attempts == MaxAttempts(retry_times, FALSE)
         e == Ev("drain", cache[idx], res, idx)
     IN
       /\ log' = IF res = "retry" /\ ShouldWait(FALSE, k, max_attempts)
                 THEN log \o <<e, Ev("sleep", cache[idx], "none",
                                     WaitTime(k))>>
                 ELSE Append(log, e)
       /\ IF res = "success"
          THEN /\ uploaded' = Append(uploaded, cache[idx])
               /\ unacked' = AckOne(unacked, cache[idx])
               /\ IF idx < Len(cache)
                  THEN /\ pc' = "drain_inflight" /\ idx' = idx + 1
                       /\ \E f \in Fracs :
                            payload' = BuildPayload(cache[idx + 1], f)
                  ELSE /\ pc' = "drain_done" /\ idx' = idx
                       /\ payload' = NoPayload
          ELSE IF res = "retry" /\ k < max_attempts
          THEN /\ pc' = "drain_inflight"
               /\ \E f \in Fracs : payload' = BuildPayload(cache[idx], f)
               /\ UNCHANGED <<uploaded, unacked, idx>>
          ELSE /\ pc' = "drain_done"
               /\ payload' = NoPayload
               /\ UNCHANGED <<uploaded, unacked, idx>>
  /\ lastResp' = NoResp
  /\ UNCHANGED <<config, running, cache, file, cur, attempt, success, stats,
                 termKind, termAt, finalStats, cache0, saved,
                 stale, notes, ticks>>
  /\ marks' = Marked(marks, AttemptResult(lastResp))

\* _upload_cached_data after the loop (lines 108-114).
DrainFinish ==
  /\ pc = "drain_done"
  /\ cache' = RemoveAll(cache, uploaded)
  /\ pc' = IF SaveAfterDrain(uploaded) THEN "save_drain" ELSE "uploaded"
  /\ UNCHANGED <<payload, marks, config, running, file, cur, attempt, success, idx, uploaded,
                 stats, termKind, termAt, finalStats, lastResp, log, cache0,
                 unacked, saved,
                 stale, notes, ticks>>

\* Where _save_cache returns to: _add_to_cache and then line 267 of
\* upload(), or the end of _upload_cached_data and of upload().
SaveReturns ==
  IF pc \in {"save_add", "writing_add"}
  THEN DrainOrReturn
  ELSE pc' = "uploaded" /\ payload' = NoPayload /\ UNCHANGED <<idx, uploaded>>

\* _save_cache: open(self.cache_file, 'w') either raises (caught, the file
\* is untouched) or truncates the file (lines 76-77, 80-81).
SaveOpen ==
  /\ pc \in {"save_add", "save_drain"}
  /\ \/ /\ SaveReturns
        /\ stale' = TRUE
        /\ Logged(SaveEv("failed", stale))
        /\ UNCHANGED <<file, saved>>
     \/ /\ pc' = IF pc = "save_add" THEN "writing_add" ELSE "writing_drain"
        /\ file' = Partial
        /\ saved' = NotSaved
        /\ UNCHANGED <<stale, idx, uploaded, log, payload>>
  /\ UNCHANGED <<marks, config, running, cache, cur, attempt, success, stats,
                 termKind, termAt, finalStats, lastResp, cache0,
                 unacked, notes, ticks>>

\* _save_cache: json.dump writes the whole queue, or raises part-way
\* (caught) and leaves a truncated text (lines 78, 80-81).
SaveWrite ==
  /\ pc \in {"writing_add", "writing_drain"}
  /\ \/ /\ file' = JsonFile(cache)
        /\ saved' = cache
        /\ stale' = FALSE
        /\ Logged(SaveEv("written", stale))
     \/ /\ stale' = TRUE
        /\ Logged(SaveEv("failed", stale))
        /\ UNCHANGED <<file, saved>>
  /\ SaveReturns
  /\ UNCHANGED <<marks, config, running, cache, cur, attempt, success, stats,
                 termKind, termAt, finalStats, lastResp, cache0,
                 unacked, notes, ticks>>

\* collect_and_upload: upload() has returned; dashboard.update_data, its
\* errors caught (lines 501-510). The locals of upload() are gone.
Dashboard ==
  /\ pc = "uploaded"
  /\ \E r \in {"ok", "error"} :
       /\ notes' = Append(notes, Note("dashboard", cur, "none", r))
       /\ pc' = AfterDashboard(r)
  /\ attempt' = 0
  /\ idx' = 0
  /\ uploaded' = <<>>
  /\ log' = <<>>
  /\ cache0' = <<>>
  /\ UNCHANGED <<payload, config, running, cache, file, cur, success, stats,
                 termKind, termAt, finalStats, lastResp, unacked, saved, stale, ticks>>
  /\ marks' = 0

\* collect_and_upload: log_sensor_data, backup_data and the statistics
\* (lines 513-526), or an exception handled at lines 531-534.
LogAndCount ==
  /\ pc = "log"
  /\ \/ /\ notes' = Append(notes, Note("logger", cur, LoggerArg(success), "ok"))
        /\ stats' = IF success
                    THEN [stats EXCEPT !.successful_uploads = @ + 1]
                    ELSE CountFailed(stats)
        /\ pc' = AfterLogger("ok")
     \/ /\ notes' = Append(notes, Note("logger", cur, LoggerArg(success),
                                      "raised"))
        /\ stats' = CountFailed(stats)
        /\ pc' = AfterLogger("raised")
  /\ UNCHANGED <<payload, marks, config, running, cache, file, cur, attempt, success, idx,
                 uploaded, termKind, termAt, finalStats, lastResp, log,
                 cache0, unacked, saved, stale, ticks>>

\* run(): time.sleep(self.interval) returns (lines 572-574); the locals
\* of the finished tick are gone.
IntervalElapsed ==
  /\ pc = "sleep"
  /\ running
  /\ pc' = "loop"
  /\ cur' = NoReading
  /\ attempt' = 0
  /\ success' = FALSE
  /\ idx' = 0
  /\ uploaded' = <<>>
  /\ log' = <<>>
  /\ cache0' = <<>>
  /\ notes' = <<>>
  /\ UNCHANGED <<payload, config, running, cache, file, stats, termKind, termAt,
                 finalStats, lastResp, unacked, saved,
                 stale, ticks>>
  /\ marks' = 0

\* The locals of the interrupted tick die with the process.
ProcessGone ==
  /\ cur' = NoReading
  /\ attempt' = 0
  /\ success' = FALSE
  /\ idx' = 0
  /\ uploaded' = <<>>
  /\ lastResp' = NoResp
  /\ log' = <<>>
  /\ cache0' = <<>>
  /\ notes' = <<>>
  /\ unacked' = BagOfQueue(<<>>)
  /\ stale' = FALSE
  /\ marks' = 0
  /\ payload' = NoPayload

\* SIGINT/SIGTERM: signal_handler calls stop() (running = False, statistics
\* reported) and sys.exit(0); SystemExit unwinds the main thread from where
\* it stands, run()'s finally calls stop() again, the process ends.
StopSignal ==
  /\ pc # "stopped"
  /\ running' = FALSE
  /\ finalStats' = stats
  /\ termKind' = "signal"
  /\ termAt' = Activity(pc)
  /\ pc' = AfterSignal(pc)
  /\ ProcessGone
  /\ UNCHANGED <<config, cache, file, stats, saved, ticks>>

\* SIGKILL or power loss: the process ends where it stands.
Kill ==
  /\ pc # "stopped"
  /\ termKind' = "kill"
  /\ termAt' = Activity(pc)
  /\ pc' = "stopped"
  /\ ProcessGone
  /\ UNCHANGED <<config, running, cache, file, stats, finalStats,
                 saved, ticks>>

\* A new process: HTTPUploader.__init__ reloads the cache, SensorSystem
\* starts with fresh statistics and run() sets running.
Restart ==
  /\ pc = "stopped"
  /\ cache' = IF enable_cache THEN LoadCache(file) ELSE <<>>
  /\ cache0' = <<>>
  /\ unacked' = BagOfQueue(cache')
  /\ running' = TRUE
  /\ pc' = "loop"
  /\ cur' = NoReading
  /\ attempt' = 0
  /\ success' = FALSE
  /\ idx' = 0
  /\ uploaded' = <<>>
  /\ stats' = ZeroStats
  /\ termKind' = "none"
  /\ termAt' = "none"
  /\ finalStats' = NoStats
  /\ lastResp' = NoResp
  /\ log' = <<>>
  /\ UNCHANGED <<config, file, saved, stale, notes, ticks>>
  /\ marks' = 0
  /\ payload' = NoPayload

Next ==
  \/ Collect
  \/ Receive
  \/ Handle
  \/ BackoffDone
  \/ AfterDelivery
  \/ DrainHandle
  \/ DrainFinish
  \/ SaveOpen
  \/ SaveWrite
  \/ Dashboard
  \/ LogAndCount
  \/ IntervalElapsed
  \/ StopSignal
  \/ Kill
  \/ Restart

Spec == Init /\ [][Next]_vars

\* ------------------------------------------- a collector that is reachable
\* A ReadingSet the collector refuses whenever it is sent: the answer is
\* status 200 with ok:false (lines 205-207, 220-222).
Unacceptable == [timestamp |-> 1, sensors |-> SensorNames]

\* The answer of a reachable collector to a ReadingSet.
LiveAnswer(rs) ==
  [kind |-> "http", status |-> 200,
   body |-> IF rs = Unacceptable THEN "ok_false" ELSE "ok_true"]

\* The Sampler returns a ReadingSet the collector accepts.
CollectLive == CollectFrom(Readings \ {Unacceptable})

\* requests.post returns the answer of the reachable collector.
ReceiveLive == ReceiveResp(LiveAnswer(Sending))

\* The process keeps running and no signal arrives: run() goes from tick
\* to tick, the main thread is the only one that takes steps.
LiveNext ==
  \/ CollectLive
  \/ ReceiveLive
  \/ Handle
  \/ AfterDelivery
  \/ DrainHandle
  \/ DrainFinish
  \/ SaveOpen
  \/ SaveWrite
  \/ Dashboard
  \/ LogAndCount
  \/ IntervalElapsed

LiveSpec == Init /\ [][LiveNext]_vars /\ WF_vars(LiveNext)

TypeOK ==
  /\ retry_times \in 0..MaxRetryTimes
  /\ enable_cache \in BOOLEAN
  /\ pc \in {"loop", "inflight", "backoff", "returned", "handle",
             "drain_inflight", "drain_handle", "drain_done", "save_add", "save_drain", "writing_add",
             "writing_drain", "uploaded", "log", "sleep",
             "stopped"}
  /\ \A k \in 1..Len(cache) : cache[k] \in Readings
  /\ termKind \in {"none", "signal", "kill"}
  /\ termAt \in {"none", "sleeping", "request", "code"}
  /\ \A k \in 1..Len(notes) : notes[k].to \in {"dashboard", "logger"}
  /\ \A k \in 1..Len(log) : log[k].ev \in {"fresh", "sleep", "drain", "save"}
  /\ marks \in Nat
  /\ DOMAIN payload = UsvFields


\* ------------------------------------------------------ reading the log
FreshEvents(l) == SelectSeq(l, LAMBDA e : e.ev = "fresh")

DrainEvents(l) == SelectSeq(l, LAMBDA e : e.ev = "drain")

SleepEvents(l) == SelectSeq(l, LAMBDA e : e.ev = "sleep")

Successes(l) == SelectSeq(l, LAMBDA e : e.ev \in {"fresh", "drain"}
                                        /\ e.res = "success")

\* upload() has returned for the tick in progress (or no tick is running).
UploadReturned == pc \in {"uploaded", "log", "sleep", "loop"}

\* _upload_cached_data has returned in this tick.
DrainOver == pc \in {"save_drain", "writing_drain", "uploaded", "log", "sleep"}
             /\ success /\ cache0 # <<>>

\* ---------------------------------------------------------------- C1
\* C1: with the cache enabled, after any completed upload() calls, every
\* ReadingSet handed to upload() and not acknowledged since is in
\* self.cache (counted with multiplicity).
C1_NoLoss ==
  (enable_cache /\ UploadReturned)
    => \A r \in Readings : unacked[r] <= Count(cache, r)

\* The second tick of a process succeeded and its drain delivered part of
\* the backlog, then met a failure.
C1_Witness ==
  /\ enable_cache
  /\ pc = "uploaded"
  /\ stats.total_collections = 2
  /\ success
  /\ cache # <<>>
  /\ Len(cache) < Len(cache0)
  /\ \E k \in 1..Len(log) : log[k].ev = "drain" /\ log[k].res # "success"

\* ---------------------------------------------------------------- C2
\* C2: a drain attempts the entries in queue order, attempts an entry only
\* when every earlier one succeeded, stops at the first failure, and
\* leaves exactly the suffix that starts at the first failed entry.
C2_FifoOnDrain ==
  LET D == DrainEvents(log)
      ok == Len(Successes(D))
  IN /\ Len(D) <= Len(cache0)
     /\ \A k \in 1..Len(D) :
          /\ D[k].rs = cache0[k]
          /\ D[k].n = k
          /\ k < Len(D) => D[k].res = "success"
     /\ DrainOver =>
          /\ D # <<>>
          /\ D[Len(D)].res # "success" \/ Len(D) = Len(cache0)
          /\ cache = SubSeq(cache0, ok + 1, Len(cache0))

\* Queue [A,B,C]: A delivered, B failed, [B,C] left.
C2_Witness ==
  /\ pc = "uploaded"
  /\ success
  /\ Len(cache0) = 3
  /\ Len(DrainEvents(log)) = 2
  /\ DrainEvents(log)[2].res # "success"
  /\ cache = <<cache0[2], cache0[3]>>
  /\ cache0[1] = cache0[3]
  /\ cache0[1] # cache0[2]


\* ---------------------------------------------------------------- C3
WellFormedNotOk(r) ==
  r.kind = "http" /\ r.status \in 200..299 /\ r.body \in {"ok_false", "ok_absent"}

Status200NotOk(r) ==
  r.kind = "http" /\ r.status = 200 /\ r.body \in {"ok_false", "ok_absent"}

RetryableResp(r) ==
  \/ r.kind \in {"timeout", "connerr"}
  \/ r.kind = "http" /\ r.status # 200
  \/ r.kind = "http" /\ r.body = "malformed"

\* C3 as stated: in a fresh delivery every well-formed answer (2xx, body
\* parsed) that does not report ok:true ends the delivery at that attempt.
C3_Original ==
  [][(pc = "handle" /\ pc' # "stopped" /\ WellFormedNotOk(lastResp))
       => pc' = "returned"]_vars

\* C3 amended: in a fresh delivery a status-200 answer whose body parses
\* and does not report ok:true ends the delivery at that attempt, with no
\* further attempt; a timeout, a connection error, any status other than
\* 200 or a malformed body is followed by the backoff wait while attempts
\* remain, and ends the delivery after exactly retry_times attempts.
C3_TerminalVsRetryable ==
  [][(pc = "handle" /\ pc' # "stopped") =>
       /\ Status200NotOk(lastResp) =>
            /\ pc' = "returned"
            /\ ~success'
            /\ Len(FreshEvents(log')) = attempt
       /\ RetryableResp(lastResp) =>
            \/ attempt < retry_times /\ pc' = "backoff"
            \/ /\ attempt = retry_times
               /\ pc' = "returned"
               /\ ~success'
               /\ Len(FreshEvents(log')) = retry_times]_vars

\* A retryable failure was retried and the second attempt was rejected,
\* which ended a delivery that had attempts left.
C3_Witness ==
  /\ pc = "returned"
  /\ retry_times >= 3
  /\ Len(FreshEvents(log)) = 2
  /\ FreshEvents(log)[1].res = "retry"
  /\ FreshEvents(log)[2].res = "terminal"

\* ---------------------------------------------------------------- C4
\* _upload_single is running for the fresh ReadingSet, or has just returned.
InFreshDelivery == pc \in {"inflight", "handle", "backoff", "returned"}

\* C4: in a fresh delivery with N >= 1 attempts the log of the delivery
\* has a wait exactly between failed attempt k and attempt k+1; the first
\* wait is 2 seconds and each wait doubles the one before (2, 4, 8);
\* nothing is waited before attempt 1 or after attempt N, so N failed
\* attempts come with N-1 waits.
C4_Backoff ==
  LET F == SelectSeq(log, LAMBDA e : e.ev \in {"fresh", "sleep"})
      S == SleepEvents(log)
  IN (retry_times >= 1 /\ InFreshDelivery) =>
     /\ \A k \in 1..Len(F) :
          /\ F[k].ev = "sleep" <=> k % 2 = 0
          /\ F[k].ev = "fresh" => F[k].n = (k + 1) \div 2
     /\ \A k \in 1..Len(S) :
          S[k].n = IF k = 1 THEN 2 ELSE 2 * S[k - 1].n
     /\ (F # <<>> /\ F[Len(F)].ev = "sleep")
          => /\ pc \in {"backoff", "inflight", "handle"}
             /\ Len(FreshEvents(log)) < retry_times
     /\ (pc = "returned" /\ Len(FreshEvents(log)) = retry_times)
          => Len(S) = retry_times - 1

\* Four attempts failed: the waits were 2, 4 and 8 seconds.
C4_Witness ==
  /\ pc = "returned"
  /\ retry_times = 4
  /\ ~success
  /\ Len(FreshEvents(log)) = 4
  /\ Len(SleepEvents(log)) = 3
  /\ SleepEvents(log)[3].n = 8

\* ---------------------------------------------------------------- C5
\* C5: a queue written completely by _save_cache and reloaded by a new
\* process is the same queue (length, order, field values), and a process
\* that ends without having touched the queue reloads what it had loaded.
C5_IdempotentReload ==
  /\ [](( /\ enable_cache
          /\ pc = "loop"
          /\ stats.total_collections = 0
          /\ saved # NotSaved ) => cache = saved)
  /\ [][( /\ enable_cache
          /\ pc = "stopped"
          /\ pc' = "loop"
          /\ stats.total_collections = 0 ) => cache' = cache]_vars

\* A restarted process holds three entries, not all equal, that the
\* process before it wrote.
C5_Witness ==
  /\ enable_cache
  /\ pc = "loop"
  /\ stats.total_collections = 0
  /\ Len(cache) = MaxInitQueue + 1
  /\ cache = saved
  /\ cache[1] # cache[Len(cache)]

\* ---------------------------------------------------------------- C6
AllRetry(F) == \A k \in 1..Len(F) : F[k].res = "retry"

\* C6 as stated: whenever the queue grows, the fresh delivery made all
\* retry_times attempts and each failed retryably.
C6_Original ==
  [][(pc # "stopped" /\ Len(cache') > Len(cache))
       => /\ Len(FreshEvents(log)) = retry_times
          /\ AllRetry(FreshEvents(log))]_vars

\* C6 amended: the queue grows only by the ReadingSet of the tick, at the
\* tail, after its fresh delivery returned failure: all retry_times
\* attempts failed retryably, or an attempt was rejected (status 200
\* without ok:true) - a rejected ReadingSet is queued as well.
C6_AppendOnlyAfterFailure ==
  [][(pc # "stopped" /\ Len(cache') > Len(cache)) =>
       LET F == FreshEvents(log) IN
       /\ pc = "returned"
       /\ ~success
       /\ cache' = Append(cache, cur)
       /\ \A k \in 1..Len(F) : F[k].rs = cur /\ F[k].n = k
       /\ \/ Len(F) = retry_times /\ AllRetry(F)
          \/ /\ F # <<>>
             /\ F[Len(F)].res = "terminal"
             /\ AllRetry(SubSeq(F, 1, Len(F) - 1))]_vars

\* A rejected ReadingSet has just been appended.
C6_Witness ==
  /\ pc = "save_add"
  /\ ~success
  /\ log # <<>>
  /\ log[Len(log)].ev = "fresh"
  /\ log[Len(log)].res = "terminal"
  /\ cache = Append(cache0, cur)


\* ---------------------------------------------------------------- C7
DrainAcked(r) ==
  \E k \in 1..Len(log) :
    log[k].ev = "drain" /\ log[k].res = "success" /\ log[k].rs = r

\* C7: an entry leaves the Spill Queue, in memory or in the persisted
\* store, only after a drain attempt of this tick delivered it; nothing
\* else makes the queue shorter.
C7_RemovedOnlyWhenDelivered ==
  [][\A r \in Readings :
       ( \/ /\ pc # "stopped" /\ pc' # "stopped"
            /\ Count(cache', r) < Count(cache, r)
         \/ Count(LoadCache(file'), r) < Count(LoadCache(file), r) )
       => DrainAcked(r)]_vars

\* ---------------------------------------------------------------- C8
\* C8: wherever the process is terminated, the persisted store is not a
\* truncated text, and - unless the termination fell between a change of
\* the in-memory queue and the start of its write, or a write had failed -
\* reloading it gives every entry queued and not delivered.
C8_StoreConsistent ==
  [][(enable_cache /\ pc # "stopped" /\ pc' = "stopped") =>
       /\ file.kind # "partial"
       /\ (pc \notin {"save_add", "save_drain"} /\ ~stale) =>
            \A r \in Readings : unacked[r] <= Count(LoadCache(file), r)]_vars

\* ---------------------------------------------------------------- C9
\* C9: in every tick a queued entry is attempted only after the fresh
\* ReadingSet of that tick was delivered; a tick whose fresh delivery
\* failed attempts no queued entry; the deliveries of a tick are the fresh
\* ReadingSet followed by the oldest entries of the backlog, in order.
C9_FreshBeforeBacklog ==
  LET S == Successes(log) IN
  /\ \A k \in 1..Len(log) :
       log[k].ev = "drain" =>
         \E j \in 1..(k - 1) :
           log[j].ev = "fresh" /\ log[j].res = "success" /\ log[j].rs = cur
  /\ (pc \in {"returned", "save_add", "writing_add", "uploaded", "log",
             "sleep"}
      /\ ~success) => DrainEvents(log) = <<>>
  /\ \A k \in 1..Len(S) :
       IF k = 1 THEN S[k].ev = "fresh" /\ S[k].rs = cur
       ELSE /\ S[k].ev = "drain"
            /\ k - 1 <= Len(cache0)
            /\ S[k].rs = cache0[k - 1]

\* The fresh ReadingSet was delivered on a retry, then two queued entries.
C9_Witness ==
  /\ pc = "uploaded"
  /\ success
  /\ log[1].ev = "fresh"
  /\ log[1].n >= 2
  /\ Len(Successes(log)) = 3
  /\ Len(cache0) >= 2
  /\ cache0[1] # cache0[2]

\* --------------------------------------------------------------- C10
InFlight == pc \in {"inflight", "drain_inflight"}

\* C10: a stop signal never takes the process to Stopped while a delivery
\* attempt is in flight; the attempt first finishes or times out.
C10_GracefulStop ==
  [][(InFlight /\ pc' = "stopped") => termKind' # "signal"]_vars

\* --------------------------------------------------------------- C11
\* The fresh delivery of the tick made every attempt and each failed
\* retryably (none at all when retry_times is 0), and upload() is over.
FreshExhausted ==
  /\ pc = "uploaded"
  /\ ~success
  /\ \A k \in 1..Len(log) : log[k].ev = "fresh" => log[k].res = "retry"

\* C11: with the cache enabled, when every attempt of the fresh delivery
\* failed retryably, upload() returns False having made retry_times
\* attempts, the queue is the queue of before with the ReadingSet of the
\* tick appended at the tail, and no queued entry was attempted.
C11_AppendFrame ==
  (enable_cache /\ FreshExhausted) =>
    /\ cache = Append(cache0, cur)
    /\ DrainEvents(log) = <<>>
    /\ Len(FreshEvents(log)) = (IF retry_times = 0 THEN 0 ELSE 1)
    /\ \A k \in 1..Len(log) : log[k].ev = "fresh" => log[k].n = retry_times

\* Three attempts failed against a queue that held two different entries:
\* the queue now holds three, the new one last.
C11_Witness ==
  /\ enable_cache
  /\ FreshExhausted
  /\ retry_times = 3
  /\ Len(cache0) = 2
  /\ cache0[1] # cache0[2]
  /\ cur # cache0[2]
  /\ cache = <<cache0[1], cache0[2], cur>>

\* --------------------------------------------------------------- C12
OkTrue2xx(r) ==
  r.kind = "http" /\ r.status \in 200..299 /\ r.body = "ok_true"

OkTrue200(r) == r.kind = "http" /\ r.status = 200 /\ r.body = "ok_true"

\* upload() is running after _upload_single returned for the fresh
\* ReadingSet, or has returned and the Logger was not called yet.
AfterFreshDelivery ==
  pc \in {"returned", "save_add", "writing_add", "drain_inflight",
          "drain_handle", "drain_done", "save_drain", "writing_drain",
          "uploaded", "log"}

IsSuffix(q, q0) ==
  \E k \in 0..Len(q0) : q = SubSeq(q0, k + 1, Len(q0))

\* C12 as stated: an answer to the first attempt that is a success by the
\* specification (2xx, ok:true) makes the fresh delivery succeed there.
C12_Original ==
  [][(pc = "handle" /\ attempt = 1 /\ pc' # "stopped"
      /\ OkTrue2xx(lastResp))
       => (pc' = "returned" /\ success')]_vars

\* C12 amended: when the first attempt of a fresh delivery is answered
\* with status 200 and ok:true, the delivery returns True after that one
\* attempt and no wait; upload() returns that value; a tick whose delivery
\* succeeded appends nothing (the queue is a suffix of the queue of
\* before, an empty queue stays empty); and the Logger call of the tick
\* has upload_success=True.
C12_FirstAttemptSuccess ==
  /\ [][(pc = "handle" /\ attempt = 1 /\ pc' # "stopped"
         /\ OkTrue200(lastResp))
          => /\ pc' = "returned"
             /\ success'
             /\ log' = <<Ev("fresh", cur, "success", 1)>>]_vars
  /\ [][(AfterFreshDelivery /\ pc' # "stopped")
          => (success' = success /\ cur' = cur)]_vars
  /\ []((pc = "uploaded" /\ success) => IsSuffix(cache, cache0))
  /\ [][(pc = "log" /\ pc' = "sleep" /\ success)
          => /\ notes' # <<>>
             /\ notes'[Len(notes')].to = "logger"
             /\ notes'[Len(notes')].rs = cur
             /\ notes'[Len(notes')].arg = "true"]_vars

\* Retries were available, the first attempt was acknowledged, and
\* upload() has returned True with the queue still empty.
C12_Witness ==
  /\ pc = "uploaded"
  /\ enable_cache
  /\ retry_times >= 2
  /\ success
  /\ log = <<Ev("fresh", cur, "success", 1)>>
  /\ cache0 = <<>>
  /\ cache = <<>>

\* --------------------------------------------------------------- C13
\* One step of the running process, termination aside.
TickStep ==
  \/ Collect \/ Receive \/ Handle \/ BackoffDone \/ AfterDelivery
  \/ DrainHandle \/ DrainFinish \/ SaveOpen \/ SaveWrite
  \/ Dashboard \/ LogAndCount \/ IntervalElapsed

\* C13: no failure ends the loop. The process stops only by a signal or a
\* kill; while it runs, self.running stays True and, whatever failed so
\* far (sensors, attempts, writes of the store, update_data,
\* log_sensor_data), the tick has a next step: after upload() the
\* Dashboard step, then the Logger step, then the interval sleep, then
\* the next tick.
C13_LoopSurvivesFailures ==
  /\ [](pc # "stopped" => running)
  /\ []((pc # "stopped" /\ ~(pc = "loop" /\ ticks = MaxTicks))
          => ENABLED TickStep)
  /\ [][(pc # "stopped" /\ pc' = "stopped")
          => termKind' \in {"signal", "kill"}]_vars
  /\ [][(pc = "uploaded" /\ pc' # "stopped") => pc' = "log"]_vars
  /\ [][(pc = "log" /\ pc' # "stopped") => pc' = "sleep"]_vars
  /\ [][(pc = "sleep" /\ pc' # "stopped") => (pc' = "loop" /\ running')]_vars

\* The second tick of a process, after a first that counted as failed: two
\* sensors could not be read, the delivery failed, the store could not be
\* written, update_data and log_sensor_data raised - and the loop is in
\* its interval sleep, still running.
C13_Witness ==
  /\ pc = "sleep"
  /\ running
  /\ stats.total_collections = 2
  /\ stats.failed_uploads = 2
  /\ cur.sensors # SensorNames
  /\ ~success
  /\ stale
  /\ Len(notes) = 2
  /\ notes[1].to = "dashboard" /\ notes[1].out = "error"
  /\ notes[2].to = "logger" /\ notes[2].out = "raised"

\* --------------------------------------------------------------- C14
\* The step is the end of a _save_cache call with the given outcome.
SaveEnded(res) ==
  /\ Len(log') = Len(log) + 1
  /\ log'[Len(log')].ev = "save"
  /\ log'[Len(log')].res = res

\* C14: a failed write of the store ends inside _save_cache: upload() goes
\* on to return its value and the queue in memory is untouched by it;
\* when upload() has returned, the queue in memory is the queue of before
\* plus the ReadingSet of a failed tick, or minus the delivered head,
\* whatever the writes did; every change of the queue is followed by a
\* write of the whole queue; and the first write that succeeds after a
\* failed one leaves a store that reloads as the whole queue in memory.
C14_WriteFailureHeals ==
  /\ [][(SaveEnded("failed") /\ pc' # "stopped")
          => /\ cache' = cache
             /\ success' = success
             /\ pc' = "uploaded"
             /\ stale']_vars
  /\ []((pc = "uploaded" /\ enable_cache) =>
          cache = IF success
                  THEN SubSeq(cache0, Len(Successes(log)), Len(cache0))
                  ELSE Append(cache0, cur))
  /\ [][(pc # "stopped" /\ pc' # "stopped" /\ cache' # cache)
          => pc' \in {"save_add", "save_drain"}]_vars
  /\ [][(SaveEnded("written") /\ pc' # "stopped")
          => /\ cache' = cache
             /\ LoadCache(file') = cache
             /\ ~stale']_vars
  /\ [][(stale /\ ~stale' /\ pc' # "stopped") => SaveEnded("written")]_vars

\* Second tick of a process: a write had failed, the write of this tick
\* succeeded, and the store holds the whole queue of two or more entries.
C14_Witness ==
  /\ pc = "uploaded"
  /\ enable_cache
  /\ stats.total_collections = 2
  /\ log # <<>>
  /\ log[Len(log)] = SaveEv("written", TRUE)
  /\ ~stale
  /\ Len(cache) >= 2
  /\ cache[1] # cache[Len(cache)]
  /\ LoadCache(file) = cache

\* --------------------------------------------------------------- C15
\* C15: with the cache enabled and no write of this process failed and
\* not made good, whenever upload() has returned the store reloads as
\* the queue in memory; after an append the store is the old queue with
\* the new entry last, after a drain that delivered entries the store is
\* the queue without them.
C15_SyncPersistence ==
  (enable_cache /\ pc \in {"uploaded", "log", "sleep"} /\ ~stale) =>
    /\ LoadCache(file) = cache
    /\ (pc = "uploaded" /\ ~success)
         => file = JsonFile(Append(cache0, cur))
    /\ (pc = "uploaded" /\ success /\ Len(Successes(log)) > 1)
         => file = JsonFile(SubSeq(cache0, Len(Successes(log)),
                                   Len(cache0)))

\* A drain delivered the first of two different entries and met a
\* failure: the store holds the second alone.
C15_Witness ==
  /\ enable_cache
  /\ pc = "uploaded"
  /\ ~stale
  /\ success
  /\ Len(cache0) = 2
  /\ cache0[1] # cache0[2]
  /\ Len(Successes(log)) = 2
  /\ cache = <<cache0[2]>>
  /\ file = JsonFile(<<cache0[2]>>)

\* --------------------------------------------------------------- C16
\* The store is missing or its text does not parse.
StoreUnusable == file.kind # "json"

\* C16: with the cache enabled, a process that starts on a missing or
\* unparsable store reaches the loop, running, with an empty queue and
\* can start a tick; as long as the store is still in that condition and
\* no write failed, the queue holds what this process appended to the
\* empty queue; and a tick that starts on an empty queue attempts no
\* queued entry and leaves the queue empty or holding its own ReadingSet.
C16_LoadFailsSoft ==
  /\ [][(enable_cache /\ pc = "stopped" /\ pc' # "stopped"
         /\ StoreUnusable)
          => (pc' = "loop" /\ running' /\ cache' = <<>>)]_vars
  /\ []((enable_cache /\ pc = "loop" /\ stats.total_collections = 0
         /\ StoreUnusable)
          => /\ cache = <<>>
             /\ running
             /\ ticks < MaxTicks => ENABLED Collect)
  /\ []((enable_cache /\ StoreUnusable /\ ~stale
         /\ pc \notin {"stopped", "writing_add", "writing_drain"})
          => cache = IF pc = "save_add" THEN <<cur>> ELSE <<>>)
  /\ []((enable_cache /\ pc = "uploaded" /\ cache0 = <<>>)
          => /\ DrainEvents(log) = <<>>
             /\ cache = IF success THEN <<>> ELSE <<cur>>)

\* A process that started on a truncated store has appended the
\* ReadingSet of a failed tick to its empty queue and is about to write.
C16_Witness ==
  /\ enable_cache
  /\ file.kind = "partial"
  /\ pc = "save_add"
  /\ ~stale
  /\ cache0 = <<>>
  /\ cache = <<cur>>

\* --------------------------------------------------------------- C17
\* The step handles the answer to an attempt, fresh or of the drain.
AttemptHandled ==
  pc \in {"handle", "drain_handle"} /\ pc' # "stopped"

\* The attempt of the step counted as a delivery: _upload_single returned
\* True to upload() or to the drain loop.
CountedDelivered ==
  IF pc = "handle"
  THEN success' /\ pc' = "returned"
  ELSE uploaded' = Append(uploaded, cache[idx])

\* The attempt of the step counted as a failure after which a fresh
\* delivery retries while attempts remain.
CountedRetryable ==
  /\ ~CountedDelivered
  /\ log'[Len(log) + 1].res = "retry"
  /\ (pc = "handle" /\ attempt < retry_times) => pc' = "backoff"

\* C17 as stated: an attempt counts as delivered exactly when the answer
\* has a 2xx status and a body with ok:true.
C17_Original ==
  [][AttemptHandled => (CountedDelivered <=> OkTrue2xx(lastResp))]_vars

\* C17 amended: an attempt, fresh or of the drain, counts as delivered
\* exactly when the answer has status 200 and a body with ok:true; an
\* answer with any other status, inside or outside 2xx, is a retryable
\* failure whatever its body says.
C17_SuccessCriterion ==
  [][AttemptHandled =>
       /\ CountedDelivered <=> OkTrue200(lastResp)
       /\ log'[Len(log) + 1].res = "success" <=> OkTrue200(lastResp)
       /\ (lastResp.kind = "http" /\ lastResp.status # 200)
            => CountedRetryable]_vars

\* The fresh ReadingSet was delivered at the second attempt, the drain
\* delivered the first queued entry and the second attempt of the drain
\* counted as a retryable failure.
C17_Witness ==
  /\ pc = "drain_done"
  /\ log[1] = Ev("fresh", cur, "success", 2)
  /\ Len(DrainEvents(log)) = 2
  /\ DrainEvents(log)[1].res = "success"
  /\ DrainEvents(log)[2].res = "retry"
  /\ uploaded = <<cache[1]>>

\* --------------------------------------------------------------- C18
\* The step is the arrival of SIGINT or SIGTERM.
SignalArrives == termKind = "none" /\ termKind' = "signal"

\* C18: a stop signal is handled during the interval sleep and during a
\* backoff wait, and the step that handles it ends the process there:
\* running is False, the statistics reported are those of that moment,
\* no tick and no attempt is started by it; a stopped process samples
\* nothing and does nothing but be started anew.
C18_PromptShutdown ==
  /\ [](Activity(pc) = "sleeping" => ENABLED StopSignal)
  /\ [][(Activity(pc) = "sleeping" /\ SignalArrives)
          => /\ pc' = "stopped"
             /\ ~running'
             /\ finalStats' = stats
             /\ stats' = stats
             /\ ticks' = ticks
             /\ attempt' = 0]_vars
  /\ [][pc = "stopped"
          => /\ ticks' = ticks
             /\ pc' \in {"stopped", "loop"}
             /\ pc' = "loop" => stats' = ZeroStats]_vars
  /\ []((pc = "stopped" /\ termKind = "signal")
          => (~running /\ finalStats = stats))

\* The signal arrived during a sleep of the second tick of a process; the
\* process is stopped and reported the two collections.
C18_Witness ==
  /\ pc = "stopped"
  /\ termKind = "signal"
  /\ termAt = "sleeping"
  /\ ~running
  /\ finalStats.total_collections = 2
  /\ finalStats.successful_uploads = 1
  /\ finalStats.failed_uploads = 1

\* --------------------------------------------------------------- C19
\* Nothing of a tick is pending: no ReadingSet in hand, no attempt made or
\* in flight, no drain under way, no notification outstanding.
Quiescent ==
  /\ cur = NoReading
  /\ attempt = 0
  /\ idx = 0
  /\ uploaded = <<>>
  /\ lastResp = NoResp
  /\ log = <<>>
  /\ notes = <<>>

\* C19: the Sampler is invoked only from the head of the loop, with
\* nothing of an earlier tick pending and every earlier tick of the
\* process counted as a success or a failure; from there to the end of
\* the tick the ReadingSet in hand does not change, and every attempt,
\* wait and write of the tick is made for it or, in the drain, for an
\* entry of the queue the tick started with.
C19_SingleTimeline ==
  /\ [][(pc # "stopped"
         /\ stats'.total_collections # stats.total_collections)
          => /\ pc = "loop"
             /\ Quiescent
             /\ stats'.total_collections = stats.total_collections + 1
             /\ stats.total_collections =
                  stats.successful_uploads + stats.failed_uploads]_vars
  /\ [][(pc \notin {"loop", "sleep", "stopped"} /\ pc' # "stopped")
          => (cur' = cur /\ ticks' = ticks /\ cache0' \in {cache0, <<>>})]_vars
  /\ [](\A k \in 1..Len(log) :
          IF log[k].ev = "drain"
          THEN log[k].n <= Len(cache0) /\ log[k].rs = cache0[log[k].n]
          ELSE log[k].rs = cur)

\* The second tick of a process has sampled and sent its first request;
\* the first tick was counted and nothing of it is pending.
C19_Witness ==
  /\ pc = "inflight"
  /\ attempt = 1
  /\ stats.total_collections = 2
  /\ stats.successful_uploads + stats.failed_uploads = 1
  /\ log = <<>>
  /\ notes = <<>>
  /\ cache0 = cache
  /\ cache # <<>>

\* --------------------------------------------------------------- C20
LoggerNotes == SelectSeq(notes, LAMBDA x : x.to = "logger")

\* C20: once upload() has returned, and whatever update_data did, the
\* next step of the tick is the one call of log_sensor_data; before it
\* the Logger has not been notified in the tick, after it the Logger has
\* been notified exactly once, with the ReadingSet of the tick and with
\* upload_success equal to the value upload() returned.
C20_LoggerNotifiedOnce ==
  /\ [](pc # "sleep" => LoggerNotes = <<>>)
  /\ [](pc = "log"
          => /\ ENABLED LogAndCount
             /\ Len(notes) = 1
             /\ notes[1].to = "dashboard"
             /\ notes[1].out \in {"ok", "error"})
  /\ [][(pc \in {"uploaded", "log"} /\ pc' # "stopped")
          => /\ pc' = (IF pc = "uploaded" THEN "log" ELSE "sleep")
             /\ success' = success
             /\ cur' = cur]_vars
  /\ [](pc = "sleep"
          => /\ Len(LoggerNotes) = 1
             /\ LoggerNotes[1].rs = cur
             /\ cur \in Readings
             /\ LoggerNotes[1].arg = "true" <=> success)

\* update_data raised, and the Logger was then told of the delivered
\* ReadingSet of the tick.
C20_Witness ==
  /\ pc = "sleep"
  /\ success
  /\ notes = <<Note("dashboard", cur, "none", "error"),
               Note("logger", cur, "true", "ok")>>

\* --------------------------------------------------------------- C21
\* The step of the tick a position belongs to: 0 before the Sampler is
\* called, 1 inside upload(), 2 upload() returned and update_data is
\* next, 3 log_sensor_data is next, 4 the interval sleep.
StepOf(p) ==
  IF p = "loop" THEN 0
  ELSE IF p = "uploaded" THEN 2
  ELSE IF p = "log" THEN 3
  ELSE IF p = "sleep" THEN 4
  ELSE 1

\* C21 as stated: when the tick reaches its interval sleep, the Logger was
\* notified of the outcome before the Dashboard was notified.
C21_Original ==
  pc = "sleep"
    => \A i, j \in 1..Len(notes) :
         (notes[i].to = "logger" /\ notes[j].to = "dashboard") => i < j

\* C21: within each tick the steps occur in the order Sampler, upload,
\* Dashboard notification, Logger notification of the outcome, interval
\* sleep. No step is entered out of this order or skipped, nobody is
\* notified before upload() has returned, and the Dashboard is notified
\* before the Logger.
C21_TickOrder ==
  /\ [][(pc # "stopped" /\ pc' # "stopped" /\ pc' # pc)
          => \/ StepOf(pc') = StepOf(pc)
             \/ StepOf(pc') = StepOf(pc) + 1
             \/ (pc = "sleep" /\ pc' = "loop")]_vars
  /\ []((pc # "stopped" /\ StepOf(pc) \in {1, 2})
          => (cur \in Readings /\ notes = <<>>))
  /\ [](pc = "log" => (Len(notes) = 1 /\ notes[1].to = "dashboard"))
  /\ [](pc = "sleep"
          => \A i, j \in 1..Len(notes) :
               (notes[i].to = "dashboard" /\ notes[j].to = "logger")
                 => i < j)
  /\ [](pc = "sleep"
          => (Len(notes) = 2 /\ notes[1].to = "dashboard"
              /\ notes[2].to = "logger" /\ notes[2].rs = notes[1].rs))

\* A tick of a process with a backlog went through every step: the
\* delivery succeeded at the second attempt, a queued entry was drained,
\* then update_data and log_sensor_data were called, in this order, and
\* the interval sleep began.
C21_Witness ==
  /\ pc = "sleep"
  /\ success
  /\ stats.successful_uploads = 1
  /\ Len(cache) < MaxInitQueue
  /\ saved = cache
  /\ notes = <<Note("dashboard", cur, "none", "ok"),
               Note("logger", cur, "true", "ok")>>

\* --------------------------------------------------------------- C22
\* A drain is in progress or has just ended in this tick.
InDrain == pc \in {"drain_inflight", "drain_handle", "drain_done"}

\* The drain attempts of the tick that failed.
DrainFailures(l) == SelectSeq(DrainEvents(l), LAMBDA x : x.res # "success")

\* C22: in a drain each queued entry is attempted at most once: the k-th
\* attempt of the drain is for the k-th entry of the queue, whatever the
\* retry count; nothing is waited during a drain; a failed attempt is the
\* last attempt of the drain, so a drain makes at most one failed attempt
\* and at most len(queue) attempts.
C22_DrainSingleShot ==
  /\ \A k \in 1..Len(DrainEvents(log)) :
       /\ DrainEvents(log)[k].n = k
       /\ DrainEvents(log)[k].res # "success" => k = Len(DrainEvents(log))
  /\ Len(DrainFailures(log)) <= 1
  /\ InDrain
       => /\ Len(DrainEvents(log)) <= Len(cache)
          /\ SleepEvents(log) = <<>>
          /\ pc = "drain_inflight" => idx = Len(DrainEvents(log)) + 1
          /\ (pc = "drain_done" /\ DrainFailures(log) # <<>>)
               => Len(uploaded) = Len(DrainEvents(log)) - 1

\* With retries configured for fresh deliveries, a drain of a queue of two
\* entries delivered the first and stopped at the retryable failure of the
\* second, after two attempts in all.
C22_Witness ==
  /\ pc = "drain_done"
  /\ retry_times >= 2
  /\ Len(cache) = 2
  /\ Len(DrainEvents(log)) = 2
  /\ DrainEvents(log)[1].res = "success"
  /\ DrainEvents(log)[2].res = "retry"

\* --------------------------------------------------------------- C23
\* The step handles an answer that _upload_single counts as a delivery,
\* of the fresh ReadingSet or of a queued entry.
DeliveryAcknowledged ==
  /\ pc \in {"handle", "drain_handle"}
  /\ pc' # "stopped"
  /\ AttemptResult(lastResp) = "success"

\* C23: with the data logger attached, every attempt that delivered, of a
\* fresh ReadingSet or of a queued entry in a drain, calls
\* mark_upload_success exactly once, and no other step calls it: a failed
\* attempt, a wait, a write of the store leave the count alone. At every
\* point of upload() the number of marks equals the number of deliveries
\* acknowledged so far.
C23_MarkPerDelivery ==
  /\ [](marks = Len(Successes(log)))
  /\ [][DeliveryAcknowledged => marks' = marks + 1]_vars
  /\ [][(marks' # marks /\ marks' # 0) => DeliveryAcknowledged]_vars
  /\ [][(pc \in {"handle", "drain_handle"} /\ pc' # "stopped"
          /\ AttemptResult(lastResp) # "success") => marks' = marks]_vars

\* The fresh ReadingSet was delivered at its second attempt, the drain
\* delivered the first queued entry and its attempt for the second was
\* rejected: four attempts, two marks.
C23_Witness ==
  /\ pc = "drain_done"
  /\ attempt = 2
  /\ marks = 2
  /\ Len(DrainEvents(log)) = 2
  /\ DrainEvents(log)[2].res = "terminal"

\* --------------------------------------------------------------- C24
\* A payload has a value that is not null in each of the four fields.
Complete(pl) == \A x \in UsvFields : pl[x].src # "null"

\* A payload carries the values of a ReadingSet: the value read where the
\* sensor is present, a generated value of that sensor where it is not.
Carries(pl, rs) ==
  \A x \in UsvFields :
    IF SensorOf(x) \in rs.sensors
    THEN pl[x] = Own(rs, SensorOf(x))
    ELSE pl[x].src = "generated" /\ pl[x].of = SensorOf(x)

\* The payload of every ReadingSet, over all subsets of the four sensors.
EveryPayloadComplete ==
  \A S \in SUBSET SensorNames : \A ts \in 1..2 : \A f \in Fracs :
    LET rs == [timestamp |-> ts, sensors |-> S] IN
      /\ Complete(BuildPayload(rs, f))
      /\ Carries(BuildPayload(rs, f), rs)

\* C24: for every ReadingSet, whatever subset of the four sensors it
\* lacks, the payload built for it has all four usv fields with a value
\* that is not null, the value read when present and a generated one
\* otherwise; and whenever a request of a fresh delivery or of a drain is
\* in flight, at the first attempt or at a later one, its payload is such
\* a payload of the ReadingSet being sent, a partial one included.
C24_PayloadComplete ==
  /\ EveryPayloadComplete
  /\ pc \in {"inflight", "drain_inflight"}
       => /\ Sending \in Readings
          /\ Complete(payload)
          /\ Carries(payload, Sending)

\* A ReadingSet without humidity and pressure was queued by an earlier
\* tick or process; the drain of this tick is sending it with generated
\* values in the two fields, after the delivery of an equally partial
\* fresh ReadingSet was acknowledged at its second attempt.
C24_Witness ==
  /\ pc = "drain_inflight"
  /\ success
  /\ attempt = 2
  /\ cur.sensors # SensorNames
  /\ cache[idx].sensors # SensorNames
  /\ payload["humidity"].src = "generated"
  /\ payload["pressure"].v = 10120 + 2 * 9
  /\ payload["temp"] = Own(cache[idx], "temperature")

\* --------------------------------------------------------------- C25
\* The queue holds an entry the collector would accept.
HasAcceptable(q) == \E i \in 1..Len(q) : q[i] # Unacceptable

EndsInDrain ==
  /\ pc \in {"drain_inflight", "drain_handle", "drain_done"}
  /\ uploaded # <<>>
  /\ pc' = "stopped"

\* C26: when the process ends during a drain, what the next process will
\* reload from the persisted store holds, of each content, no more
\* entries than are still unacknowledged, so that no acknowledged entry
\* is queued, and sent, again after the restart; and the next process
\* starts from exactly that reload.
C26_NoRedelivery ==
  /\ [][EndsInDrain
          => \A r \in Readings :
               Count(LoadCache(file'), r) <= unacked[r]]_vars
  /\ [][(pc = "stopped" /\ pc' # "stopped" /\ enable_cache)
          => cache' = LoadCache(file)]_vars

\* --------------------------------------------------------------- C27
\* The step appends the ReadingSet of the tick to the queue.
AppendsFresh ==
  /\ pc = "returned"
  /\ pc' # "stopped"
  /\ cache' = AddToCache(cache, cur)

\* C27: for every retry count N, zero included, when _upload_single has
\* returned for a fresh delivery it has made at least one attempt, and
\* at most N when N is positive; and no ReadingSet is appended to the
\* queue without an attempt having been made for it.
C27_AttemptBounds ==
  /\ [](pc = "returned"
          => /\ Len(FreshEvents(log)) >= 1
             /\ retry_times >= 1 => Len(FreshEvents(log)) <= retry_times)
  /\ [][AppendsFresh => FreshEvents(log) # <<>>]_vars

\* --------------------------------------------------------------- C28
\* The step ends a tick: collect_and_upload returns, in whatever way.
TickEnds == pc = "log" /\ pc' = "sleep"

\* C28: whenever final statistics are reported, total_collections is the
\* sum of successful_uploads and failed_uploads; and successful_uploads
\* counts the ticks whose upload() returned success: a tick that ends
\* after a successful upload() adds one to it, whatever happened after
\* upload() returned, and nothing else changes it within a process.
C28_Statistics ==
  /\ [](finalStats # NoStats
          => finalStats.total_collections
               = finalStats.successful_uploads + finalStats.failed_uploads)
  /\ [][(TickEnds /\ success)
          => stats'.successful_uploads = stats.successful_uploads + 1]_vars
  /\ [][(stats'.successful_uploads # stats.successful_uploads
           /\ pc # "stopped")
          => (TickEnds /\ success)]_vars

\* --------------------------------------------------------------- C29
\* C29: with ENABLE_CACHE false the queue is empty in every state; the
\* store is never written (its content never changes) and never read (a
\* new process starts with an empty queue whatever the store holds); no
\* drain is attempted and no write is started; and when the fresh
\* delivery has failed, upload() returns that failure with the ReadingSet
\* kept nowhere.
C29_CacheDisabled ==
  /\ [](~enable_cache
          => /\ cache = <<>>
             /\ pc \notin {"drain_inflight", "drain_handle", "drain_done",
                           "save_add", "save_drain", "writing_add",
                           "writing_drain"}
             /\ DrainEvents(log) = <<>>
             /\ \A k \in 1..Len(log) : log[k].ev # "save")
  /\ [][~enable_cache => (file' = file /\ saved' = saved)]_vars
  /\ [][(~enable_cache /\ pc = "stopped" /\ pc' # "stopped")
          => cache' = <<>>]_vars
  /\ [][(~enable_cache /\ pc = "returned" /\ pc' # "stopped")
          => /\ pc' = "uploaded"
             /\ success' = success
             /\ cache' = <<>>]_vars

\* The cache is disabled while the store of an earlier configuration
\* holds entries: every attempt of the fresh delivery has failed,
\* upload() has returned the failure, the queue is empty and the store is
\* as it was.
C29_Witness ==
  /\ ~enable_cache
  /\ pc = "uploaded"
  /\ ~success
  /\ retry_times >= 2
  /\ attempt = retry_times
  /\ log = <<Ev("fresh", cur, "retry", attempt)>>
  /\ cache = <<>>
  /\ saved # NotSaved /\ saved # <<>>
  /\ file = JsonFile(saved)

\* --------------------------------------------------------------- C30
\* Removal by value of the first k entries of every queue of up to
\* MaxInitQueue + 1 entries, entries of identical content included,
\* leaves the queue without its first k positions.
RemovalByValueIsByPosition ==
  \A q \in InitQueues(MaxInitQueue + 1) : \A k \in 0..Len(q) :
    /\ RemoveAll(q, SubSeq(q, 1, k)) = SubSeq(q, k + 1, Len(q))
    /\ \A r \in Readings :
         Count(RemoveAll(q, SubSeq(q, 1, k)), r)
           = Count(q, r) - Count(SubSeq(q, 1, k), r)

\* C30: the removal loop of a drain, "for data in uploaded:
\* self.cache.remove(data)", equals removal by position: for every queue,
\* entries of identical content included, a drain in which exactly the
\* first k entries were delivered leaves the queue equal to the original
\* without its first k positions, the rest in the same order.
C30_RemovalByPosition ==
  /\ [](RemovalByValueIsByPosition)
  /\ [][(pc = "drain_done" /\ pc' # "stopped")
          => /\ uploaded = SubSeq(cache, 1, Len(uploaded))
             /\ cache' = SubSeq(cache, Len(uploaded) + 1, Len(cache))]_vars

\* The queue held three entries, the first and the third of identical
\* content; the drain delivered the first only, and the queue is now the
\* second and the third.
C30_Witness ==
  /\ pc = "save_drain"
  /\ Len(cache0) = 3
  /\ cache0[1] = cache0[3]
  /\ cache0[2] # cache0[1]
  /\ Len(uploaded) = 1
  /\ cache = <<cache0[2], cache0[3]>>

====
